---- MODULE Spec2Model ----
(***************************************************************************)
(* G.722 sub-band ADPCM codec bindings of callcenter.js-mcp.               *)
(*                                                                         *)
(* Two layers are modelled from the source files:                          *)
(*   - src/native/g722/g722_wasm_shim.c : the exported C entry points      *)
(*     (g722_wasm_enc_new / _enc_destroy / _encode / _dec_new / ...)       *)
(*   - src/native/g722_addon.cpp        : class G722Wrapper (constructor,  *)
(*     destructor, Encode, Decode)                                         *)
(* Both call into the codec core (g722_encoder_new, g722_encode, ...),     *)
(* whose implementation is not among the source files; the core is         *)
(* modelled from the specification (sections 3, 4, 6, 7 of spec.md).       *)
(***************************************************************************)
EXTENDS Integers, Sequences, FiniteSets, TLC

(***************************************************************************)
(* Bounds of the model.                                                    *)
(***************************************************************************)
\* longest sample / byte buffer handed to one call
MaxLen == 2
\* bytes one addon object is given to decode in its life
MaxSteps == 2
\* sample pairs (encoder) or bytes (decoder) one context of the shim processes
MaxShimSteps == 1
\* samples one addon object is given to encode in its life
MaxStream == 4

(***************************************************************************)
(* Pointers.  A context handle is a heap address or NULL; a                 *)
(* buffer pointer is NULL or points at the buffer's elements.              *)
(***************************************************************************)
NULL == 0

NullBuf == [null |-> TRUE, data |-> <<>>]

Buf(data) == [null |-> FALSE, data |-> data]

(***************************************************************************)
(* Small arithmetic helpers.                                               *)
(***************************************************************************)
Abs(v) == IF v < 0 THEN -v ELSE v

Sgn(v) == IF v > 0 THEN 1 ELSE IF v < 0 THEN -1 ELSE 0

Min(a, b) == IF a < b THEN a ELSE b

Clamp(v, lo, hi) == IF v < lo THEN lo ELSE IF v > hi THEN hi ELSE v

\* 16-bit saturation: all core arithmetic is saturating, never undefined
Saturate(v) == Clamp(v, -32768, 32767)

RECURSIVE Pow2(_)
Pow2(n) == IF n <= 0 THEN 1 ELSE 2 * Pow2(n - 1)

RECURSIVE SumProd(_, _, _, _)
\* sum of x[i] * c[i] over the indices i = from, from + 2, ... up to n
SumProd(x, c, from, n) ==
    IF from > n THEN 0 ELSE x[from] * c[from] + SumProd(x, c, from + 2, n)

\* sum of x[i] * c[i] over i = 1..n
Dot(x, c, n) == SumProd(x, c, 1, n) + SumProd(x, c, 2, n)

(***************************************************************************)
(* THE CORE, modelled from the specification.                              *)
(*                                                                         *)
(* Band coder (spec 4.1): an adaptive predictor and quantizer per band.    *)
(* A BandState holds the logarithmic scale factor nb, the pole and zero    *)
(* predictor coefficients a, b, and the histories r (reconstructed values) *)
(* and dq (quantized differences), sized to the predictor order.           *)
(***************************************************************************)
\* low band: 6-bit quantizer whose 4 most significant bits are the bits the
\* adaptation reads (the ones every operating mode transmits), 2 poles, 6 zeros
LowBand == [bits |-> 6, core |-> 4, zeros |-> 6, det0 |-> 8, big |-> 8]

\* high band: fixed 2-bit quantizer, 2 poles, 2 zeros
HighBand == [bits |-> 2, core |-> 2, zeros |-> 2, det0 |-> 8, big |-> 1]

\* the scale factor is clamped to 0..NbMax
NbMax == 4

\* predictor coefficients are clamped to -CoefMax..CoefMax, in units of 1/CoefScale
CoefMax == 3

CoefScale == 4

BandInit(P) ==
    [nb |-> 0, a |-> <<0, 0>>, b |-> [i \in 1..P.zeros |-> 0],
     r |-> <<0, 0>>, dq |-> [i \in 1..P.zeros |-> 0]]

\* quantizer step size for the current scale factor
Det(P, st) == P.det0 * Pow2(st.nb)

\* predicted value from the current coefficients and history
Predict(P, st) ==
    Saturate((Dot(st.a, st.r, 2) + Dot(st.b, st.dq, P.zeros))
             \div CoefScale)

\* a code keeps its `keep` most significant bits; the discarded ones are zero
Truncate(P, code, keep) ==
    (code \div Pow2(P.bits - keep)) * Pow2(P.bits - keep)

\* logarithmic quantizer: sign bit and magnitude index, P.bits wide
Quantize(P, e, det) ==
    Min(Abs(e) \div det, Pow2(P.bits - 1) - 1)
      + (IF e < 0 THEN Pow2(P.bits - 1) ELSE 0)

\* reverse quantizer
Dequantize(P, code, det) ==
    LET mag == code % Pow2(P.bits - 1)
        val == mag * det + det \div 2
    IN  IF code >= Pow2(P.bits - 1) THEN -val ELSE val

\* the state update after one sample, the same in both directions: it reads
\* only the code's core bits
BandUpdate(P, st, code) ==
    LET c   == Truncate(P, code, P.core)
        d   == Dequantize(P, c, Det(P, st))
        rec == Saturate(Predict(P, st) + d)
        mag == c % Pow2(P.bits - 1)
    IN  [nb |-> Clamp(st.nb + (IF mag >= P.big THEN 1 ELSE -1), 0, NbMax),
         a  |-> [i \in 1..2 |->
                   Clamp(st.a[i] + Sgn(rec) * Sgn(st.r[i]), -CoefMax, CoefMax)],
         b  |-> [i \in 1..P.zeros |->
                   Clamp(st.b[i] + Sgn(d) * Sgn(st.dq[i]), -CoefMax, CoefMax)],
         r  |-> <<rec, st.r[1]>>,
         dq |-> [i \in 1..P.zeros |-> IF i = 1 THEN d ELSE st.dq[i - 1]]]

\* code = encode_sample(state, input_signal)
BandEncode(P, st, x) ==
    LET code == Quantize(P, Saturate(x - Predict(P, st)), Det(P, st))
    IN  [code |-> code, st |-> BandUpdate(P, st, code)]

\* reconstructed = decode_sample(state, code), `keep` bits of the code received
BandDecode(P, st, code, keep) ==
    LET d == Dequantize(P, Truncate(P, code, keep), Det(P, st))
    IN  [out |-> Saturate(Predict(P, st) + d), st |-> BandUpdate(P, st, code)]

(***************************************************************************)
(* Sub-band filter bank (spec 4.2): a fixed-length delay line, shifted by  *)
(* one sample pair per step, and two FIR correlations over it.             *)
(***************************************************************************)
\* symmetric FIR coefficients, even length
Taps == <<1, 3, 3, 1>>

TapCount == Len(Taps)

FilterScale == 8

FilterInit == [i \in 1..TapCount |-> 0]

Shift(line, v0, v1) == SubSeq(line, 3, TapCount) \o <<v0, v1>>

\* (low, high) = analyze(filter_state, sample0, sample1)
Analyze(line, s0, s1) ==
    LET x       == Shift(line, s0, s1)
        sumodd  == SumProd(x, Taps, 1, TapCount)
        sumeven == SumProd(x, Taps, 2, TapCount)
    IN  [line |-> x,
         low  |-> Saturate((sumeven + sumodd) \div FilterScale),
         high |-> Saturate((sumeven - sumodd) \div FilterScale)]

\* (sample0, sample1) = synthesize(filter_state, low, high)
Synthesize(line, rlow, rhigh) ==
    LET y == Shift(line, Saturate(rlow + rhigh), Saturate(rlow - rhigh))
    IN  [line |-> y,
         s0   |-> Saturate((2 * SumProd(y, Taps, 1, TapCount)) \div FilterScale),
         s1   |-> Saturate((2 * SumProd(y, Taps, 2, TapCount)) \div FilterScale)]

(***************************************************************************)
(* Bit packer (spec 4.3).  The high-band code has a fixed position; the    *)
(* low-band code keeps `mode` bits, the others are zero on pack and masked *)
(* on unpack.  The packing option selects the bit ordering.                *)
(***************************************************************************)
\* byte = pack(low_code, high_code, mode, options)
Pack(low, high, mode, options) ==
    IF options = 0
    THEN high * 64 + Truncate(LowBand, low, mode)
    ELSE Truncate(LowBand, low, mode) * 4 + high

\* (low_code, high_code) = unpack(byte, mode, options)
Unpack(byte, mode, options) ==
    IF options = 0
    THEN [low |-> Truncate(LowBand, byte % 64, mode), high |-> byte \div 64]
    ELSE [low |-> Truncate(LowBand, byte \div 4, mode), high |-> byte % 4]

(***************************************************************************)
(* Codec context (spec 3, 4.4): operating mode, packing option, the two    *)
(* band states and the filter delay line.                                  *)
(***************************************************************************)
\* operating mode (low-band bits) selected by the rate: 64, 56, 48 kbps
ModeOf(rate) ==
    IF rate = 64000 THEN 6 ELSE IF rate = 56000 THEN 5
    ELSE IF rate = 48000 THEN 4 ELSE 0

\* recognized packing options
PackingOptions == {0, 1}

\* a heap cell that holds no context
Free == [kind |-> "free"]

NewContext(kind, rate, options) ==
    [kind |-> kind, mode |-> ModeOf(rate), options |-> options,
     low |-> BandInit(LowBand), high |-> BandInit(HighBand),
     line |-> FilterInit, steps |-> 0]

\* construction validates mode and option; an invalid combination, like a
\* failed allocation, yields no context at all
CoreNew(kind, rate, options, mem) ==
    IF ModeOf(rate) = 0 \/ options \notin PackingOptions \/ ~mem
    THEN Free
    ELSE NewContext(kind, rate, options)

\* one processing step of the encoder: a sample pair to a byte
EncodePair(ctx, s0, s1) ==
    LET f  == Analyze(ctx.line, s0, s1)
        lo == BandEncode(LowBand, ctx.low, f.low)
        hi == BandEncode(HighBand, ctx.high, f.high)
    IN  [ctx  |-> [ctx EXCEPT !.line = f.line, !.low = lo.st, !.high = hi.st,
                              !.steps = @ + 1],
         byte |-> Pack(lo.code, hi.code, ctx.mode, ctx.options)]

\* one processing step of the decoder: a byte to a sample pair
DecodeByte(ctx, byte) ==
    LET u  == Unpack(byte, ctx.mode, ctx.options)
        lo == BandDecode(LowBand, ctx.low, u.low, ctx.mode)
        hi == BandDecode(HighBand, ctx.high, u.high, HighBand.bits)
        f  == Synthesize(ctx.line, lo.out, hi.out)
    IN  [ctx |-> [ctx EXCEPT !.line = f.line, !.low = lo.st, !.high = hi.st,
                             !.steps = @ + 1],
         out |-> <<f.s0, f.s1>>]

RECURSIVE EncodeLoop(_, _, _, _, _)
\* samples are consumed in pairs; an odd leftover sample is not consumed
EncodeLoop(ctx, amp, j, len, out) ==
    IF j + 1 > len THEN [ctx |-> ctx, out |-> out]
    ELSE LET p == EncodePair(ctx, amp[j], amp[j + 1])
         IN  EncodeLoop(p.ctx, amp, j + 2, len, Append(out, p.byte))

RECURSIVE DecodeLoop(_, _, _, _, _)
DecodeLoop(ctx, data, j, len, out) ==
    IF j > len THEN [ctx |-> ctx, out |-> out]
    ELSE LET p == DecodeByte(ctx, data[j])
         IN  DecodeLoop(p.ctx, data, j + 1, len, out \o p.out)

\* encode(context, samples, count) -> bytes_written | -1.  `cell` is the heap
\* cell behind the handle (Free behind NULL); a failed call changes nothing
CoreEncode(cell, amp, len, out) ==
    IF cell = Free \/ ((amp.null \/ out.null) /\ len # 0)
    THEN [ret |-> -1, ctx |-> cell, out |-> <<>>]
    ELSE LET e == EncodeLoop(cell, amp.data, 1, len, <<>>)
         IN  [ret |-> Len(e.out), ctx |-> e.ctx, out |-> e.out]

\* decode(context, bytes, count) -> samples_written | -1
CoreDecode(cell, data, len, out) ==
    IF cell = Free \/ ((data.null \/ out.null) /\ len # 0)
    THEN [ret |-> -1, ctx |-> cell, out |-> <<>>]
    ELSE LET d == DecodeLoop(cell, data.data, 1, len, <<>>)
         IN  [ret |-> Len(d.out), ctx |-> d.ctx, out |-> d.out]

(***************************************************************************)
(* STATE.  The wasm shim and the node addon are two build targets around   *)
(* the same core; a behaviour is a run of one of them.                     *)
(***************************************************************************)
VARIABLES
    target,         \* "wasm": the exported shim; "node": the addon object
    heap,           \* heap address -> the context stored there, or Free
    asked,          \* wasm: handle -> <<rate, options>> its caller asked for
    status,         \* node: "none", "live", "failed" (constructor threw), "destroyed"
    encoder_state,  \* node: G722Wrapper::encoder_state
    decoder_state,  \* node: G722Wrapper::decoder_state
    made,           \* node: handles g722_encoder_new / g722_decoder_new returned
    freed,          \* node: handles passed to g722_encoder_destroy / g722_decoder_destroy
    encIn,          \* node: all samples passed to successful Encode calls, in order
    encOut,         \* node: all bytes successful Encode calls returned, in order
    allEven,        \* node: every successful Encode call so far had an even sample count
    decIn,          \* node: all bytes passed to successful Decode calls, in order
    last            \* the most recent call: arguments, result, what reached the core

vars == <<target, heap, asked, status, encoder_state, decoder_state, made, freed,
          encIn, encOut, allEven, decIn, last>>

shimVars == <<asked>>

nodeVars == <<status, encoder_state, decoder_state, made, freed,
              encIn, encOut, allEven, decIn>>

\* heap addresses: room for the two contexts of an addon object
Handles == {1, 2}

Cell(h) == IF h = NULL THEN Free ELSE heap[h]

Live(kind) == {h \in Handles : heap[h] # Free /\ heap[h].kind = kind}

FreeCells(hp) == {h \in Handles : hp[h] = Free}

\* the address an allocation returns
Alloc(hp) == CHOOSE h \in FreeCells(hp) : \A k \in FreeCells(hp) : h <= k

(***************************************************************************)
(* Inputs.                                                                 *)
(***************************************************************************)
Samples == {-1000, 500}

ByteInputs == {37, 218}

Rates == {64000, 56000, 48000, 16000}

OptionInputs == {0, 1, 2}

RECURSIVE SeqsUpTo(_, _)
SeqsUpTo(S, n) ==
    IF n = 0 THEN {<<>>}
    ELSE LET shorter == SeqsUpTo(S, n - 1)
         IN  shorter \cup {Append(q, x) : q \in {t \in shorter : Len(t) = n - 1}, x \in S}

SampleBuffers == SeqsUpTo(Samples, MaxLen)

\* the record of a call: op and arguments (h, rate, options, len, inNull,
\* outNull, data), what it returned (ret, out) or threw, and the core routine
\* it invoked with which context (core, cctx)
NoCall == [op |-> "none", h |-> NULL, rate |-> 0, options |-> 0, len |-> 0,
           inNull |-> FALSE, outNull |-> FALSE, data |-> <<>>, ret |-> 0,
           out |-> <<>>, core |-> "none", cctx |-> NULL, threw |-> ""]

Init ==
    /\ target \in {"wasm", "node"}
    /\ heap = [h \in Handles |-> Free]
    /\ asked = [h \in Handles |-> <<0, 0>>]
    /\ status = "none"
    /\ encoder_state = NULL
    /\ decoder_state = NULL
    /\ made = <<>>
    /\ freed = <<>>
    /\ encIn = <<>>
    /\ encOut = <<>>
    /\ allEven = TRUE
    /\ decIn = <<>>
    /\ last = NoCall

Store(hp, h, cell) == IF h = NULL THEN hp ELSE [hp EXCEPT ![h] = cell]

Call(op, h, len, amp, out) ==
    [NoCall EXCEPT !.op = op, !.h = h, !.len = len,
                   !.inNull = amp.null, !.outNull = out.null]

(***************************************************************************)
(* THE WASM SHIM, src/native/g722/g722_wasm_shim.c                         *)
(***************************************************************************)
\* g722_wasm_enc_new / g722_wasm_dec_new: the core constructor is called with
\* (coreRate, coreOptions) and its result returned as is
ShimNew(kind, rate, options, coreRate, coreOptions, mem) ==
    /\ target = "wasm"
    /\ FreeCells(heap) = Handles    \* the shim's caller holds one context at a time
    /\ LET cell == CoreNew(kind, coreRate, coreOptions, mem)
           h    == IF cell = Free THEN NULL ELSE Alloc(heap)
       IN  /\ heap' = Store(heap, h, cell)
           /\ asked' = IF h = NULL THEN asked
                       ELSE [asked EXCEPT ![h] = <<rate, options>>]
           /\ last' = [NoCall EXCEPT !.op = kind \o "_new", !.ret = h,
                                     !.rate = rate, !.options = options,
                                     !.core = "g722_" \o kind \o "oder_new"]
    /\ UNCHANGED <<target, nodeVars>>

\* mutant: the shim builds every encoder at the full rate
g722_wasm_enc_new_full_rate(rate, options, mem) ==
    ShimNew("enc", rate, options, 64000, options, mem)

g722_wasm_enc_new(rate, options, mem) ==
    ShimNew("enc", rate, options, rate, options, mem)

g722_wasm_dec_new(rate, options, mem) ==
    ShimNew("dec", rate, options, rate, options, mem)

\* the guard of g722_wasm_enc_destroy / g722_wasm_dec_destroy
ShimDestroys(h) == h # NULL

ShimDestroy(kind, h) ==
    /\ target = "wasm"
    /\ h \in {NULL} \cup Live(kind)
    /\ IF ShimDestroys(h)
       THEN /\ heap' = Store(heap, h, Free)
            /\ asked' = [asked EXCEPT ![h] = <<0, 0>>]
            /\ last' = [NoCall EXCEPT !.op = kind \o "_destroy", !.h = h,
                                      !.core = "g722_" \o kind \o "oder_destroy",
                                      !.cctx = h]
       ELSE /\ heap' = heap
            /\ asked' = asked
            /\ last' = [NoCall EXCEPT !.op = kind \o "_destroy", !.h = h]
    /\ UNCHANGED <<target, nodeVars>>

g722_wasm_enc_destroy(h) == ShimDestroy("enc", h)

g722_wasm_dec_destroy(h) == ShimDestroy("dec", h)

\* mutant: the output pointer goes unchecked
ShimEncodeRejectsNoOut(h, amp, len, out) == h = NULL \/ amp.null

\* mutant: an empty input is rejected like a null one
ShimEncodeRejectsEmpty(h, amp, len, out) ==
    h = NULL \/ amp.null \/ out.null \/ len = 0

\* the guard of g722_wasm_encode
ShimEncodeRejects(h, amp, len, out) == h = NULL \/ amp.null \/ out.null

\* the effect of a g722_wasm_encode call whose core call, if any, gave r
ShimEncodeDone(h, amp, len, out, r) ==
    IF ShimEncodeRejects(h, amp, len, out)
    THEN /\ heap' = heap
         /\ last' = [Call("encode", h, len, amp, out) EXCEPT !.ret = -1]
    ELSE /\ heap' = Store(heap, h, r.ctx)
         /\ last' = [Call("encode", h, len, amp, out) EXCEPT
                       !.ret = r.ret, !.out = r.out, !.core = "g722_encode",
                       !.cctx = h, !.data = SubSeq(amp.data, 1, len)]

g722_wasm_encode(h, amp, len, out) ==
    /\ target = "wasm"
    /\ h \in {NULL} \cup Live("enc")
    /\ amp.null \/ len = Len(amp.data)
    /\ h # NULL => heap[h].steps + len \div 2 <= MaxShimSteps
    /\ ShimEncodeDone(h, amp, len, out, CoreEncode(Cell(h), amp, len, out))
    /\ UNCHANGED <<target, asked, nodeVars>>

\* the guard of g722_wasm_decode
ShimDecodeRejects(h, data, len, out) == h = NULL \/ data.null \/ out.null

\* the effect of a g722_wasm_decode call whose core call, if any, gave r
ShimDecodeDone(h, data, len, out, r) ==
    IF ShimDecodeRejects(h, data, len, out)
    THEN /\ heap' = heap
         /\ last' = [Call("decode", h, len, data, out) EXCEPT !.ret = -1]
    ELSE /\ heap' = Store(heap, h, r.ctx)
         /\ last' = [Call("decode", h, len, data, out) EXCEPT
                       !.ret = r.ret, !.out = r.out, !.core = "g722_decode",
                       !.cctx = h, !.data = SubSeq(data.data, 1, len)]

g722_wasm_decode(h, data, len, out) ==
    /\ target = "wasm"
    /\ h \in {NULL} \cup Live("dec")
    /\ data.null \/ len = Len(data.data)
    /\ h # NULL => heap[h].steps + len <= MaxShimSteps
    /\ ShimDecodeDone(h, data, len, out, CoreDecode(Cell(h), data, len, out))
    /\ UNCHANGED <<target, asked, nodeVars>>

\* what the shim's callers pass: NULL with any count, or a buffer with its length
SamplePointers == {NullBuf} \cup {Buf(d) : d \in SampleBuffers}

BytePointers == {NullBuf} \cup {Buf(d) : d \in SeqsUpTo(ByteInputs, MaxLen)}

OutPointers == {NullBuf, Buf(<<>>)}

NextShim ==
    \/ \E rate \in Rates, options \in OptionInputs, mem \in BOOLEAN :
          g722_wasm_enc_new(rate, options, mem)
    \/ \E rate \in Rates, options \in OptionInputs, mem \in BOOLEAN :
          g722_wasm_dec_new(rate, options, mem)
    \/ \E h \in {NULL} \cup Handles : g722_wasm_enc_destroy(h)
    \/ \E h \in {NULL} \cup Handles : g722_wasm_dec_destroy(h)
    \/ \E h \in {NULL} \cup Handles, amp \in SamplePointers, len \in 0..MaxLen,
          out \in OutPointers : g722_wasm_encode(h, amp, len, out)
    \/ \E h \in {NULL} \cup Handles, data \in BytePointers, len \in 0..MaxLen,
          out \in OutPointers : g722_wasm_decode(h, data, len, out)

(***************************************************************************)
(* THE NODE ADDON, src/native/g722_addon.cpp, class G722Wrapper            *)
(***************************************************************************)
\* g722_encoder_new(64000, 0)
EncoderRate == 64000

EncoderOptions == 0

\* g722_decoder_new(64000, 0)
DecoderRate == 64000

\* mutant: the decoder is built with the other packing option
DecoderOptionsOther == CHOOSE o \in PackingOptions : o # EncoderOptions

DecoderOptions == 0

\* mutant: the constructor throws only when both contexts are missing
CtorFailsBoth(e, d) == e = NULL /\ d = NULL

\* the constructor's failure test
CtorFails(e, d) == e = NULL \/ d = NULL

\* G722Wrapper::G722Wrapper.  memE, memD: whether the core's allocations
\* succeed.  A constructor that throws hands no object to its caller.
G722Wrapper(memE, memD) ==
    /\ target = "node"
    /\ status = "none"
    /\ LET ecell == CoreNew("enc", EncoderRate, EncoderOptions, memE)
           e     == IF ecell = Free THEN NULL ELSE Alloc(heap)
           heap1 == Store(heap, e, ecell)
           dcell == CoreNew("dec", DecoderRate, DecoderOptions, memD)
           d     == IF dcell = Free THEN NULL ELSE Alloc(heap1)
       IN  /\ heap' = Store(heap1, d, dcell)
           /\ encoder_state' = e
           /\ decoder_state' = d
           /\ made' = <<e, d>>
           /\ status' = IF CtorFails(e, d) THEN "failed" ELSE "live"
           /\ last' = [NoCall EXCEPT
                         !.op = "new",
                         !.threw = IF CtorFails(e, d)
                                   THEN "Failed to initialize G.722 codec" ELSE ""]
    /\ UNCHANGED <<target, asked, freed, encIn, encOut, allEven, decIn>>

\* mutant: the second branch destroys the encoder context again
DtorDestroysTwice(e, d) ==
    (IF e # NULL THEN <<e>> ELSE <<>>) \o (IF d # NULL THEN <<e>> ELSE <<>>)

\* the contexts the destructor destroys, in order
DtorDestroys(e, d) ==
    (IF e # NULL THEN <<e>> ELSE <<>>) \o (IF d # NULL THEN <<d>> ELSE <<>>)

\* G722Wrapper::~G722Wrapper, run when the object is collected or when the
\* constructor threw
Destructor ==
    /\ target = "node"
    /\ status \in {"live", "failed"}
    /\ LET gone == DtorDestroys(encoder_state, decoder_state)
       IN  /\ heap' = [h \in Handles |->
                         IF \E i \in 1..Len(gone) : gone[i] = h THEN Free ELSE heap[h]]
           /\ freed' = freed \o gone
    /\ status' = "destroyed"
    /\ last' = [NoCall EXCEPT !.op = "delete"]
    /\ UNCHANGED <<target, asked, encoder_state, decoder_state, made,
                   encIn, encOut, allEven, decIn>>

\* info.Length() != 1 || !info[0].IsBuffer()
ArgsRejected(arg) == ~arg.isBuffer

\* Napi::Buffer<int16_t>::Length(): whole 16-bit elements in the buffer's bytes
NumSamples(arg) == arg.byteLength \div 2

\* mutant: the output is sized like the input
EncodeOutputLenSame(num_samples) == num_samples

\* int output_len = num_samples / 2
EncodeOutputLen(num_samples) == num_samples \div 2

\* the handle Encode hands to g722_encode, and the context behind it
EncodeContext == encoder_state

\* mutant: every call starts from a newly initialized encoder
EncoderCellFresh == NewContext("enc", EncoderRate, EncoderOptions)

EncoderCell == Cell(EncodeContext)

\* the rest of Encode once g722_encode returned r: the length check, the
\* thrown error or the returned buffer
EncodeDone(arg, num_samples, output_len, ctx, r) ==
    /\ heap' = Store(heap, ctx, r.ctx)
    /\ last' = [NoCall EXCEPT
                  !.op = "Encode", !.len = num_samples, !.data = arg.data,
                  !.ret = r.ret, !.core = "g722_encode", !.cctx = ctx,
                  !.out = IF r.ret # output_len THEN <<>> ELSE r.out,
                  !.threw = IF r.ret # output_len THEN "G.722 encoding failed" ELSE ""]
    /\ encIn' = IF r.ret # output_len THEN encIn ELSE encIn \o arg.data
    /\ encOut' = IF r.ret # output_len THEN encOut ELSE encOut \o r.out
    /\ allEven' = IF r.ret # output_len THEN allEven
                  ELSE allEven /\ num_samples % 2 = 0

\* G722Wrapper::Encode
Encode(arg) ==
    /\ target = "node"
    /\ status = "live"
    /\ IF ArgsRejected(arg)
       THEN /\ last' = [NoCall EXCEPT !.op = "Encode", !.threw = "PCM buffer expected"]
            /\ UNCHANGED <<heap, encIn, encOut, allEven>>
       ELSE /\ Len(encIn) + NumSamples(arg) <= MaxStream
            /\ EncodeDone(arg, NumSamples(arg), EncodeOutputLen(NumSamples(arg)),
                          EncodeContext,
                          CoreEncode(EncoderCell, Buf(arg.data),
                                     NumSamples(arg), Buf(<<>>)))
    /\ UNCHANGED <<target, asked, status, encoder_state, decoder_state, made, freed,
                   decIn>>

\* Napi::Buffer<uint8_t>::Length()
InputLen(arg) == arg.byteLength

\* mutant: the output is sized like the input
DecodeOutputLenSame(input_len) == input_len

\* int output_len = input_len * 2
DecodeOutputLen(input_len) == input_len * 2

\* mutant: Decode works on the object's other context
DecodeContextOther == encoder_state

\* the handle Decode hands to g722_decode, and the context behind it
DecodeContext == decoder_state

DecoderCell == Cell(DecodeContext)

\* the rest of Decode once g722_decode returned r
DecodeDone(arg, input_len, output_len, ctx, r) ==
    /\ heap' = Store(heap, ctx, r.ctx)
    /\ last' = [NoCall EXCEPT
                  !.op = "Decode", !.len = input_len, !.data = arg.data,
                  !.ret = r.ret, !.core = "g722_decode", !.cctx = ctx,
                  !.out = IF r.ret # output_len THEN <<>> ELSE r.out,
                  !.threw = IF r.ret # output_len THEN "G.722 decoding failed" ELSE ""]
    /\ decIn' = IF r.ret # output_len THEN decIn ELSE decIn \o arg.data

\* G722Wrapper::Decode
Decode(arg) ==
    /\ target = "node"
    /\ status = "live"
    /\ IF ArgsRejected(arg)
       THEN /\ last' = [NoCall EXCEPT !.op = "Decode", !.threw = "G.722 buffer expected"]
            /\ UNCHANGED <<heap, decIn>>
       ELSE /\ Len(decIn) + InputLen(arg) <= MaxSteps
            /\ DecodeDone(arg, InputLen(arg), DecodeOutputLen(InputLen(arg)),
                          DecodeContext,
                          CoreDecode(DecoderCell, Buf(arg.data),
                                     InputLen(arg), Buf(<<>>)))
    /\ UNCHANGED <<target, asked, status, encoder_state, decoder_state, made, freed,
                   encIn, encOut, allEven>>

\* what JavaScript passes: something that is no single Buffer, or a Buffer.  A
\* Buffer of PCM may end in an odd byte, which is no whole sample.
NotABuffer == [isBuffer |-> FALSE, byteLength |-> 0, data |-> <<>>]

PcmArgs ==
    {NotABuffer} \cup
    {[isBuffer |-> TRUE, byteLength |-> 2 * Len(d) + odd, data |-> d] :
        d \in SampleBuffers, odd \in {0, 1}}

\* the bytes a decoder is fed: the next bytes of what the encoder produced, or
\* line noise
Wire == {SubSeq(encOut, Len(decIn) + 1, k) : k \in Len(decIn)..Len(encOut)}

G722Args ==
    {NotABuffer} \cup
    {[isBuffer |-> TRUE, byteLength |-> Len(d), data |-> d] :
        d \in {w \in Wire : Len(w) <= MaxLen} \cup SeqsUpTo(ByteInputs, MaxLen)}

NextAddon ==
    \/ \E memE \in BOOLEAN, memD \in BOOLEAN : G722Wrapper(memE, memD)
    \/ Destructor
    \/ \E arg \in PcmArgs : Encode(arg)
    \/ \E arg \in G722Args : Decode(arg)

Next == NextShim \/ NextAddon

Spec == Init /\ [][Next]_vars

(***************************************************************************)
(* CLAIMS                                                                  *)
(***************************************************************************)
ShimCodec(c) == c.op \in {"encode", "decode"}

ShimDestroyCall(c) == c.op \in {"enc_destroy", "dec_destroy"}

AddonCodec(c) == c.op \in {"Encode", "Decode"}

\* C1: an exported encode or decode called with a null context handle, a null
\* input buffer or a null output buffer returns -1 without invoking the core
\* and without changing any context; destroy on a null handle never reaches
\* the core destroy routine and changes nothing.
C1_NullSafety ==
    [][/\ (ShimCodec(last') /\ (last'.h = NULL \/ last'.inNull \/ last'.outNull))
            => (last'.ret = -1 /\ last'.core = "none" /\ heap' = heap)
       /\ (ShimDestroyCall(last') /\ last'.h = NULL)
            => (last'.core = "none" /\ heap' = heap)]_vars

\* C1 witness: encode with a null output buffer on a context that has state.
C1_Witness ==
    /\ last.op = "encode" /\ last.h # NULL /\ last.outNull /\ ~last.inNull
    /\ last.len > 0 /\ last.ret = -1
    /\ heap[last.h].steps > 0

\* C2: a call that reports failure (the shim's -1, or an error thrown by the
\* addon's Encode or Decode) leaves every context as it was before the call.
C2_FailedCallNoEffect ==
    [][/\ (ShimCodec(last') /\ last'.ret = -1) => heap' = heap
       /\ (AddonCodec(last') /\ last'.threw # "") => heap' = heap]_vars

\* C2 witness: Encode throws on an object whose encoder has already encoded.
C2_Witness ==
    /\ last.op = "Encode" /\ last.threw # ""
    /\ status = "live" /\ heap[encoder_state].steps > 0

ZeroCount(c) ==
    \/ ShimCodec(c) /\ c.h # NULL /\ c.len = 0
    \/ AddonCodec(c) /\ c.core # "none" /\ c.len = 0

\* C4 as stated: a call with count = 0 on a valid context returns 0 and leaves
\* the context unchanged, through the shim whatever the buffer pointers are.
C4_Original ==
    [][ZeroCount(last') => (last'.ret = 0 /\ heap' = heap)]_vars

\* C4 amended: a call with count = 0 on a valid context leaves the context
\* unchanged; it returns 0 when both buffer pointers are non-null, and through
\* the shim -1 when one of them is null.
C4_ZeroCount ==
    [][ZeroCount(last') =>
         /\ heap' = heap
         /\ last'.ret = IF last'.inNull \/ last'.outNull THEN -1 ELSE 0]_vars

\* C4 witness: a shim encode of count 0 with valid pointers on a used context.
C4_Witness ==
    /\ last.op = "encode" /\ last.h # NULL /\ last.len = 0
    /\ ~last.inNull /\ ~last.outNull /\ last.ret = 0
    /\ heap[last.h].steps > 0

\* the encoder context and output of one g722_encode call on all of `samples`,
\* starting from a newly constructed encoder of the addon's mode and options
WholeEncode(samples) ==
    CoreEncode(NewContext("enc", EncoderRate, EncoderOptions), Buf(samples),
               Len(samples), Buf(<<>>))

\* C5: when an even-length sample sequence is encoded in successive calls
\* whose lengths are all multiples of 2, the concatenated output and the final
\* encoder context equal those of encoding the whole sequence in a single call
\* on a fresh context.
C5_ChunkIndependence ==
    (target = "node" /\ allEven) =>
        /\ encOut = WholeEncode(encIn).out
        /\ status = "live" => heap[encoder_state] = WholeEncode(encIn).ctx

\* C5 witness: two sample pairs were encoded by two calls of one pair each.
C5_Witness ==
    /\ status = "live" /\ allEven /\ Len(encIn) = 4
    /\ last.op = "Encode" /\ last.len = 2 /\ Len(encOut) = 2

\* C6: construction is all-or-nothing.  Through the shim, an unsupported rate
\* or unrecognized option yields NULL and no context, and a returned handle
\* is a fully initialized context; the addon's constructor throws exactly
\* when one of its two contexts is missing, an object is live only with both,
\* and Encode / Decode never pass a null context to the core.
C6_Construction ==
    /\ last.op \in {"enc_new", "dec_new"} =>
         IF ModeOf(last.rate) = 0 \/ last.options \notin PackingOptions
         THEN last.ret = NULL /\ \A h \in Handles : heap[h] = Free
         ELSE last.ret # NULL =>
                heap[last.ret] = NewContext(SubSeq(last.op, 1, 3), last.rate,
                                            last.options)
    /\ last.op = "new" =>
         (last.threw = "Failed to initialize G.722 codec"
            <=> (encoder_state = NULL \/ decoder_state = NULL))
    /\ status = "live" =>
         /\ encoder_state # NULL /\ heap[encoder_state] # Free
         /\ decoder_state # NULL /\ heap[decoder_state] # Free
    /\ last.core \in {"g722_encode", "g722_decode"} => last.cctx # NULL

\* C6 witness: the constructor threw because only the decoder was missing.
C6_Witness ==
    /\ status = "failed" /\ last.op = "new" /\ last.threw # ""
    /\ encoder_state # NULL /\ decoder_state = NULL

\* the bits of the code word that the rate the caller asked for discards
Dropped(h) == LowBand.bits - ModeOf(asked[h][1])

\* bytes that differ at most in the discarded low-band bits
SameKeptBits(b1, b2, drop, options) ==
    IF options = 0
    THEN b1 \div Pow2(drop) = b2 \div Pow2(drop)
    ELSE b1 % 4 = b2 % 4 /\ b1 \div Pow2(drop + 2) = b2 \div Pow2(drop + 2)

\* C7: at the rate its caller asked for, an encoder's output bytes hold zero
\* in the bit positions the rate leaves unused, and a decoder unpacks two
\* bytes that differ only in the discarded bits to the same high-band code
\* and the same masked low-band code.
C7_RateMasking ==
    /\ (last.op = "encode" /\ last.core = "g722_encode") =>
         \A i \in 1..Len(last.out) :
            IF asked[last.h][2] = 0
            THEN last.out[i] % Pow2(Dropped(last.h)) = 0
            ELSE (last.out[i] \div 4) % Pow2(Dropped(last.h)) = 0
    /\ (last.op = "decode" /\ last.core = "g722_decode") =>
         \A i \in 1..Len(last.data) : \A b \in 0..255 :
            SameKeptBits(last.data[i], b, Dropped(last.h), asked[last.h][2]) =>
               Unpack(last.data[i], heap[last.h].mode, heap[last.h].options)
                 = Unpack(b, heap[last.h].mode, heap[last.h].options)

\* C7 witness: an encoder asked for at 48 kbps produced a byte.
C7_Witness ==
    /\ last.op = "encode" /\ last.core = "g722_encode" /\ Len(last.out) > 0
    /\ asked[last.h][1] = 48000

\* how often h occurs in the sequence q
Count(q, h) == Cardinality({i \in 1..Len(q) : q[i] = h})

\* C8: the contexts are created once, at construction, and never reset or
\* replaced: every Encode uses the encoder context the constructor made, every
\* Decode the decoder context, each context has taken exactly the steps of all
\* calls so far, and the destructor destroys each non-null context exactly
\* once.
C8_NoReinitialization ==
    target = "node" =>
        /\ status = "none" => made = <<>>
        /\ status # "none" => made = <<encoder_state, decoder_state>>
        /\ status # "destroyed" => freed = <<>>
        /\ status = "destroyed" =>
              \A h \in Handles :
                 Count(freed, h) = IF h \in {encoder_state, decoder_state} THEN 1 ELSE 0
        /\ last.core = "g722_encode" => last.cctx = encoder_state
        /\ last.core = "g722_decode" => last.cctx = decoder_state
        /\ status = "live" =>
              /\ heap[encoder_state].kind = "enc"
              /\ heap[encoder_state].steps = Len(encOut)
              /\ heap[decoder_state].kind = "dec"
              /\ heap[decoder_state].steps = Len(decIn)

\* C8 witness: an object that encoded and decoded has been destroyed.
C8_Witness ==
    /\ status = "destroyed" /\ Len(freed) = 2
    /\ Len(encOut) > 0 /\ Len(decIn) > 0

Bands(ctx) == <<ctx.low, ctx.high>>

IsPrefix(p, q) == Len(p) <= Len(q) /\ p = SubSeq(q, 1, Len(p))

\* C9: once the decoder has decoded exactly the bytes the encoder produced, in
\* order, its band states equal the encoder's; and while it has decoded only
\* the first k of them, they equal the encoder's band states after k steps.
C9_Synchronization ==
    (target = "node" /\ status = "live") =>
        /\ decIn = encOut =>
              Bands(heap[decoder_state]) = Bands(heap[encoder_state])
        /\ (allEven /\ IsPrefix(decIn, encOut)) =>
              Bands(heap[decoder_state])
                = Bands(WholeEncode(SubSeq(encIn, 1, 2 * Len(decIn))).ctx)

\* C9 witness: the decoder has decoded both bytes the encoder produced.
C9_Witness ==
    /\ status = "live" /\ Len(encOut) = 2 /\ decIn = encOut
    /\ heap[decoder_state].low # BandInit(LowBand)

\* the decoder context and output of one g722_decode call on all of `bytes`,
\* starting from a newly constructed decoder of the addon's mode and options
WholeDecode(bytes) ==
    CoreDecode(NewContext("dec", DecoderRate, DecoderOptions), Buf(bytes),
               Len(bytes), Buf(<<>>))

\* the part of a one-call-for-everything output that the last call produced
LastPart(whole, n) == SubSeq(whole, Len(whole) - n + 1, Len(whole))

\* each context is where its own calls, run alone, would have left it
OwnCallsOnly ==
    (target = "node" /\ status = "live") =>
        /\ heap[decoder_state] = WholeDecode(decIn).ctx
        /\ allEven => heap[encoder_state] = WholeEncode(encIn).ctx
        /\ (last.op = "Decode" /\ last.threw = "") =>
              last.out = LastPart(WholeDecode(decIn).out, Len(last.out))
        /\ (allEven /\ last.op = "Encode" /\ last.threw = "") =>
              last.out = LastPart(WholeEncode(encIn).out, Len(last.out))

\* a call on one context leaves the other context as it was
OtherContextUntouched ==
    (target = "node" /\ status' = "live" /\ AddonCodec(last')) =>
        /\ last'.op = "Encode" => heap'[decoder_state] = heap[decoder_state]
        /\ last'.op = "Decode" => heap'[encoder_state] = heap[encoder_state]

\* C10: the two contexts of an addon object share no state.  Encode leaves
\* the decoder context unchanged and Decode the encoder context; however the
\* calls interleave, the decoder's state and output are those of its own
\* calls run alone, and so are the encoder's.
C10_Independence == []OwnCallsOnly /\ [][OtherContextUntouched]_vars

\* C10 witness: a Decode between two Encode calls, all of them doing work.
C10_Witness ==
    /\ status = "live" /\ last.op = "Encode" /\ last.len = 2
    /\ Len(encIn) = 4 /\ Len(decIn) > 0
    /\ heap[decoder_state].steps < heap[encoder_state].steps

====
